---- MODULE Spec2Model ----
(***************************************************************************)
(* StaticBip<T, CAP>: a bip-buffer over a fixed backing store of CAP       *)
(* slots, tracked by three half-open index ranges a, b and reserve         *)
(* (src/src/lib.rs).  Every method is one action.  usize arithmetic keeps  *)
(* its width: a subtraction or addition that leaves 0..UsizeMax panics     *)
(* when the crate is built with overflow checks (the debug profile) and    *)
(* wraps otherwise (the release profile); a slice index outside the store  *)
(* panics in both.  A panic ends the run: fault records it.                *)
(***************************************************************************)
EXTENDS Integers, Sequences, FiniteSets, TLC

\* Capacity of the backing store (the const generic CAP).
CAP == 4

\* Width of usize in bits in the model (16 is the narrowest target Rust supports).
UsizeBits == 16

UsizeMod == 2 ^ UsizeBits

UsizeMax == UsizeMod - 1

\* Number of distinct element labels the caller draws from.
NLabels == 3 * CAP

\* Arguments tried for count / len: every value up to CAP + 1, and usize::MAX.
Args == (0 .. CAP + 1) \cup {UsizeMax}

VARIABLES a, b, reserve, buffer, overflow_checks, fault, fifo

vars == <<a, b, reserve, buffer, overflow_checks, fault, fifo>>

----------------------------------------------------------------------------
\* core::ops::Range<usize>

Range(s, e) == [start |-> s, end |-> e]

\* Range::is_empty: !(start < end)
range_is_empty(r) == ~(r.start < r.end)

\* usize::min
Min(x, y) == IF x <= y THEN x ELSE y

\* x - y on usize when overflow checks are off
wrapping_sub(x, y) == (x - y) % UsizeMod

\* x + y on usize when overflow checks are off
wrapping_add(x, y) == (x + y) % UsizeMod

\* The slots of range r, in index order
Slots(r) == [i \in 1 .. (IF r.end > r.start THEN r.end - r.start ELSE 0) |-> r.start + i - 1]

\* &buffer[r] panics unless start <= end <= len
slice_in_bounds(r) == r.start <= r.end /\ r.end <= CAP

\* The elements of buf in range r, as a sequence (r in bounds)
Slice(buf, r) == [i \in DOMAIN Slots(r) |-> buf[Slots(r)[i]]]

----------------------------------------------------------------------------
\* The struct, as a value

Self == [a |-> a, b |-> b, reserve |-> reserve, buffer |-> buffer]

\* StaticBip::new
new(buf) == [a |-> Range(0, 0), b |-> Range(0, 0), reserve |-> Range(0, 0), buffer |-> buf]

capacity == CAP

\* a.end - a.start + b.end - b.start
committed(s) == s.a.end - s.a.start + s.b.end - s.b.start

\* reserve.end - reserve.start
reserved(s) == s.reserve.end - s.reserve.start

is_empty(s) == reserved(s) = 0 /\ committed(s) = 0

\* A clear that forgets the committed data but keeps the outstanding reservation
clear_op_keeps_reserve(s) == [s EXCEPT !.a = Range(0, 0), !.b = Range(0, 0)]

\* clear(): the three ranges go back to 0..0, the store is untouched
clear_op(s) == [s EXCEPT !.a = Range(0, 0), !.b = Range(0, 0), !.reserve = Range(0, 0)]

\* usize::max
Max(x, y) == IF x >= y THEN x ELSE y

\* A reserve that never shrinks a reservation outstanding at the same place
window_kept(s, start, free_space, count) ==
  IF s.reserve.start = start /\ s.reserve.end > start
  THEN Range(start, Max(s.reserve.end, wrapping_add(start, Min(free_space, count))))
  ELSE Range(start, wrapping_add(start, Min(free_space, count)))

\* start..start + free_space.min(count)
window_of(s, start, free_space, count) ==
  Range(start, wrapping_add(start, Min(free_space, count)))

\* reserve(count): [fault, self, window]
reserve_op(s, count) ==
  LET sub1 == s.a.end > capacity
      space_after_a == wrapping_sub(capacity, s.a.end)
      inB == s.b.end > s.b.start
      sub2 == inB /\ s.b.end > s.a.start
      start == IF inB THEN s.b.end
               ELSE IF space_after_a >= s.a.start THEN s.a.end ELSE 0
      free_space == IF inB THEN wrapping_sub(s.a.start, s.b.end)
                    ELSE IF space_after_a >= s.a.start THEN space_after_a ELSE s.a.start
      add == start + Min(free_space, count) > UsizeMax
      window == window_of(s, start, free_space, count)
  IN  IF overflow_checks /\ (sub1 \/ sub2 \/ add)
      THEN [fault |-> "overflow", self |-> s, window |-> Range(0, 0)]
      ELSE IF ~slice_in_bounds(window)
      THEN [fault |-> "slice", self |-> [s EXCEPT !.reserve = window], window |-> Range(0, 0)]
      ELSE [fault |-> "none", self |-> [s EXCEPT !.reserve = window], window |-> window]

\* A commit that takes the whole reservation whatever len is
to_commit_all(s, len) == wrapping_sub(s.reserve.end, s.reserve.start)

\* len.min(reserve.end - reserve.start)
to_commit(s, len) == Min(len, wrapping_sub(s.reserve.end, s.reserve.start))

\* commit(len): [fault, self]
commit_op(s, len) ==
  LET sub == s.reserve.start > s.reserve.end
      t == IF len # 0
           THEN IF range_is_empty(s.a) /\ range_is_empty(s.b)
                THEN [s EXCEPT !.a = Range(s.reserve.start, s.reserve.start + to_commit(s, len))]
                ELSE IF s.reserve.start = s.a.end
                THEN [s EXCEPT !.a.end = s.a.end + to_commit(s, len)]
                ELSE [s EXCEPT !.b.end = s.b.end + to_commit(s, len)]
           ELSE s
  IN  IF len # 0 /\ overflow_checks /\ sub
      THEN [fault |-> "overflow", self |-> s]
      ELSE [fault |-> "none", self |-> [t EXCEPT !.reserve = Range(0, 0)]]

\* A read that hands out the B region
read_op_b(s) ==
  IF slice_in_bounds(s.b)
  THEN [fault |-> "none", block |-> Slice(s.buffer, s.b)]
  ELSE [fault |-> "slice", block |-> <<>>]

\* read(): [fault, block]
read_op(s) ==
  IF slice_in_bounds(s.a)
  THEN [fault |-> "none", block |-> Slice(s.buffer, s.a)]
  ELSE [fault |-> "slice", block |-> <<>>]

\* A decommit that forgets B instead of rotating it into A
decommit_op_drops_b(s, len) ==
  IF len >= wrapping_sub(s.a.end, s.a.start)
  THEN [fault |-> "none", self |-> [s EXCEPT !.a = Range(0, 0), !.b = Range(0, 0)]]
  ELSE [fault |-> "none", self |-> [s EXCEPT !.a.start = s.a.start + len]]

\* A decommit that goes on draining the rotated region with the excess of len
decommit_op_cascades(s, len) ==
  LET lenA == wrapping_sub(s.a.end, s.a.start)
      lenB == wrapping_sub(s.b.end, s.b.start)
  IN  IF len >= lenA
      THEN [fault |-> "none",
            self |-> [s EXCEPT !.a = Range(s.b.start + Min(len - lenA, lenB), s.b.end),
                               !.b = Range(0, 0)]]
      ELSE [fault |-> "none", self |-> [s EXCEPT !.a.start = s.a.start + len]]

\* A decommit that moves A's end back instead of its start forward
decommit_op_from_end(s, len) ==
  IF len >= wrapping_sub(s.a.end, s.a.start)
  THEN [fault |-> "none", self |-> [s EXCEPT !.a = s.b, !.b = Range(0, 0)]]
  ELSE [fault |-> "none", self |-> [s EXCEPT !.a.end = s.a.end - len]]

\* A decommit that drains A without rotating B into its place
decommit_op_no_rotation(s, len) ==
  IF len >= wrapping_sub(s.a.end, s.a.start)
  THEN [fault |-> "none", self |-> [s EXCEPT !.a = Range(s.a.end, s.a.end)]]
  ELSE [fault |-> "none", self |-> [s EXCEPT !.a.start = s.a.start + len]]

\* A decommit that copies B into A but leaves B in place
decommit_op_keeps_b(s, len) ==
  IF len >= wrapping_sub(s.a.end, s.a.start)
  THEN [fault |-> "none", self |-> [s EXCEPT !.a = s.b]]
  ELSE [fault |-> "none", self |-> [s EXCEPT !.a.start = s.a.start + len]]

\* decommit(len): [fault, self]
decommit_op(s, len) ==
  LET sub == s.a.start > s.a.end
  IN  IF overflow_checks /\ sub
      THEN [fault |-> "overflow", self |-> s]
      ELSE IF len >= wrapping_sub(s.a.end, s.a.start)
      THEN [fault |-> "none", self |-> [s EXCEPT !.a = s.b, !.b = Range(0, 0)]]
      ELSE [fault |-> "none", self |-> [s EXCEPT !.a.start = s.a.start + len]]

\* pop(): [fault, self, some, index]; Range::next advances start while start < end
pop_op(s) ==
  LET r == IF s.a.start < s.a.end
           THEN [some |-> TRUE, index |-> s.a.start, self |-> [s EXCEPT !.a.start = s.a.start + 1]]
           ELSE IF s.b.start < s.b.end
           THEN [some |-> TRUE, index |-> s.b.start, self |-> [s EXCEPT !.b.start = s.b.start + 1]]
           ELSE [some |-> FALSE, index |-> 0, self |-> s]
  IN  IF r.some /\ r.index >= CAP
      THEN [fault |-> "slice", self |-> r.self, some |-> FALSE, index |-> r.index]
      ELSE [fault |-> "none", self |-> r.self, some |-> r.some, index |-> r.index]

----------------------------------------------------------------------------
\* The caller's side: the labels it writes, and the elements it expects back

\* The labels held by the slots of buf outside window w, and by the elements of q
Used(buf, w, q) ==
  {buf[i] : i \in {j \in DOMAIN buf : ~(w.start <= j /\ j < w.end)}} \cup {q[i] : i \in DOMAIN q}

\* The k-th smallest label (k >= 1) that `used` does not hold; labels are
\* 1 .. NLabels, 0 is T::default()
FreshLabel(used, k) ==
  LET free == (1 .. NLabels) \ used
  IN  IF Cardinality(free) >= k
      THEN CHOOSE x \in free : Cardinality({y \in free : y < x}) = k - 1
      ELSE ((k - 1) % NLabels) + 1

\* copy_from_slice into the window reserve() returned: elements that differ
\* from one another, from every element left in the store and from every
\* element the caller still expects back
WriteWindow(buf, w, q) ==
  [i \in DOMAIN buf |->
     IF w.start <= i /\ i < w.end THEN FreshLabel(Used(buf, w, q), i - w.start + 1) ELSE buf[i]]

\* The first n elements of sequence q dropped (all of them when n >= Len(q))
Drop(q, n) == SubSeq(q, Min(n, Len(q)) + 1, Len(q))

----------------------------------------------------------------------------
Init ==
  /\ a = Range(0, 0)
  /\ b = Range(0, 0)
  /\ reserve = Range(0, 0)
  /\ buffer = [i \in 0 .. CAP - 1 |-> 0]
  /\ overflow_checks \in BOOLEAN
  /\ fault = "none"
  /\ fifo = <<>>

Install(s) ==
  /\ a' = s.a
  /\ b' = s.b
  /\ reserve' = s.reserve

\* reserve(count), and the caller filling the window it got
Reserve(count) ==
  /\ fault = "none"
  /\ LET r == reserve_op(Self, count)
     IN  /\ fault' = r.fault
         /\ Install(r.self)
         /\ buffer' = WriteWindow(buffer, r.window, fifo)
  /\ UNCHANGED <<overflow_checks, fifo>>

\* commit(len); the caller counts the first min(len, reserved) slots as sent
Commit(len) ==
  /\ fault = "none"
  /\ LET r == commit_op(Self, len)
         n == IF len # 0 /\ r.fault = "none" THEN Min(len, reserved(Self)) ELSE 0
     IN  /\ fault' = r.fault
         /\ Install(r.self)
         /\ fifo' = fifo \o [i \in 1 .. n |-> buffer[(reserve.start + i - 1) % CAP]]
  /\ UNCHANGED <<buffer, overflow_checks>>

\* read()
Read ==
  /\ fault = "none"
  /\ fault' = read_op(Self).fault
  /\ UNCHANGED <<a, b, reserve, buffer, overflow_checks, fifo>>

\* decommit(len); the caller has consumed the first min(len, len(A)) elements
Decommit(len) ==
  /\ fault = "none"
  /\ LET r == decommit_op(Self, len)
     IN  /\ fault' = r.fault
         /\ Install(r.self)
         /\ fifo' = IF r.fault = "none" THEN Drop(fifo, Min(len, a.end - a.start)) ELSE fifo
  /\ UNCHANGED <<buffer, overflow_checks>>

\* pop(); the caller has consumed one element when it got Some
Pop ==
  /\ fault = "none"
  /\ LET r == pop_op(Self)
     IN  /\ fault' = r.fault
         /\ Install(r.self)
         /\ fifo' = IF r.some THEN Drop(fifo, 1) ELSE fifo
  /\ UNCHANGED <<buffer, overflow_checks>>

\* clear()
Clear ==
  /\ fault = "none"
  /\ Install(clear_op(Self))
  /\ fifo' = <<>>
  /\ UNCHANGED <<buffer, overflow_checks, fault>>

Next ==
  \/ \E count \in Args : Reserve(count)
  \/ \E len \in Args : Commit(len)
  \/ Read
  \/ \E len \in Args : Decommit(len)
  \/ Pop
  \/ Clear

Spec == Init /\ [][Next]_vars

----------------------------------------------------------------------------
\* Producer / consumer use: reserve, write, commit on one side, read and
\* decommit of at most the block read on the other; pop and clear never called

ConsumerDecommit(k) ==
  /\ k <= a.end - a.start
  /\ Decommit(k)

NextSPSC ==
  \/ \E count \in Args : Reserve(count)
  \/ \E len \in Args : Commit(len)
  \/ Read
  \/ \E k \in 0 .. CAP : ConsumerDecommit(k)

SpecSPSC == Init /\ [][NextSPSC]_vars

\* Every method but pop, with any argument: a caller that consumes through
\* read() and decommit only
NextNoPop ==
  \/ \E count \in Args : Reserve(count)
  \/ \E len \in Args : Commit(len)
  \/ Read
  \/ \E len \in Args : Decommit(len)
  \/ Clear

SpecNoPop == Init /\ [][NextNoPop]_vars

----------------------------------------------------------------------------
\* Helpers of the properties

\* The slot indices a range covers
Indices(r) == r.start .. (r.end - 1)

InBounds(r) == 0 <= r.start /\ r.start <= r.end /\ r.end <= CAP

Returned == fault = "none"

----------------------------------------------------------------------------
\* C1: no call of reserve, commit, read, decommit, pop or clear, in any sequence
\* from a new buffer, faults: no subtraction goes below zero and no slice
\* leaves the store.
C1_NoFault == fault = "none"

\* C2: after every call that returned, each of A, B and Reserve satisfies
\* 0 <= start <= end <= CAP.
C2_RangesInBounds == Returned => InBounds(a) /\ InBounds(b) /\ InBounds(reserve)

\* C3: after every call that returned, A and B share no slot, and a non-empty B
\* ends at or before A's start.
C3_BBeforeA ==
  Returned => /\ Indices(a) \cap Indices(b) = {}
              /\ (b.start < b.end => b.end <= a.start)

\* C4: after every call that returned, committed() + reserved() <= CAP, and
\* with committed() = CAP every reserve(count) returns an empty window.
C4_CommittedPlusReserved ==
  Returned =>
    /\ committed(Self) + reserved(Self) <= CAP
    /\ committed(Self) = CAP =>
         \A count \in Args :
            LET r == reserve_op(Self, count)
            IN  r.fault = "none" /\ r.window.start = r.window.end

\* C5: the window reserve(count) returns shares no slot with A and none with B.
C5_ReserveDisjoint ==
  Returned =>
    \A count \in Args :
       LET r == reserve_op(Self, count)
       IN  r.fault = "none" =>
             /\ Indices(r.self.reserve) \cap Indices(r.self.a) = {}
             /\ Indices(r.self.reserve) \cap Indices(r.self.b) = {}

\* C6: a pop() made while committed() > 0 returns the oldest committed element
\* that no pop or decommit has consumed yet (fifo's head).
C6_PopOldest ==
  (Returned /\ committed(Self) > 0) =>
    LET r == pop_op(Self)
    IN  /\ r.fault = "none"
        /\ r.some
        /\ Len(fifo) > 0
        /\ buffer[r.index] = Head(fifo)

\* C7: with pop and clear never called, the committed regions hold, A first
\* and then B, exactly the elements committed and not yet decommitted, in
\* commit order: what the consumer decommits is a prefix of what the producer
\* committed, and once A is decommitted read() returns the former B.
C7_ConsumerOrder ==
  /\ Returned
  /\ InBounds(a) /\ InBounds(b)
  /\ Slice(buffer, a) \o Slice(buffer, b) = fifo

\* C7 witness: the buffer has wrapped, both regions hold unread elements
C7_Wrapped ==
  /\ Returned
  /\ a.start < a.end
  /\ b.start < b.end
  /\ Len(fifo) = committed(Self)

\* C8: on a new buffer over any store, for 0 < n <= CAP, reserve(n) returns n
\* slots, and after writing n elements and commit(n), read() returns exactly
\* those n elements in the order written.
C8_RoundTrip ==
  \A n \in 1 .. CAP :
     LET r == reserve_op(new(buffer), n)
         written == [i \in 1 .. n |-> FreshLabel(Used(buffer, r.window, <<>>), i)]
         c == commit_op([r.self EXCEPT !.buffer = WriteWindow(buffer, r.window, <<>>)], n)
         rd == read_op(c.self)
     IN  /\ r.fault = "none"
         /\ r.window.end - r.window.start = n
         /\ c.fault = "none"
         /\ rd.fault = "none"
         /\ Len(rd.block) = n
         /\ rd.block = written

\* C8 witness: a whole store reserved, written and committed from empty
C8_Filled ==
  /\ Returned
  /\ a = Range(0, CAP)
  /\ b = Range(0, 0)
  /\ reserve = Range(0, 0)
  /\ Len(fifo) = CAP
  /\ read_op(Self).block = fifo

\* C9: commit(len) raises committed() by exactly min(len, reserved()), leaves
\* A and B alone when len = 0, and always leaves reserved() = 0.
C9_CommitClamps ==
  Returned =>
    \A len \in Args :
       LET r == commit_op(Self, len)
       IN  /\ r.fault = "none"
           /\ committed(r.self) = committed(Self) + Min(len, reserved(Self))
           /\ reserved(r.self) = 0
           /\ (len = 0 => r.self.a = a /\ r.self.b = b)

\* C9 witness: one slot of a whole-store reservation was committed, the tail dropped
C9_PartialCommit ==
  /\ Returned
  /\ a = Range(0, 1)
  /\ b = Range(0, 0)
  /\ reserve = Range(0, 0)
  /\ fifo = <<buffer[0]>>
  /\ \A i \in 1 .. CAP - 1 : buffer[i] # 0

\* C10: reserve(count1) then reserve(count2) leaves A, B and Reserve, and
\* returns the window, exactly as reserve(count2) alone does.
C10_ReserveReplaces ==
  Returned =>
    \A count1, count2 \in Args :
       LET r1 == reserve_op(Self, count1)
           s1 == [r1.self EXCEPT !.buffer = WriteWindow(buffer, r1.window, fifo)]
           r12 == reserve_op(s1, count2)
           r2 == reserve_op(Self, count2)
       IN  r1.fault = "none" =>
             /\ r12.fault = r2.fault
             /\ r12.window = r2.window
             /\ r12.self.a = r2.self.a
             /\ r12.self.b = r2.self.b
             /\ r12.self.reserve = r2.self.reserve

\* C10 witness: a reservation is outstanding and another reserve would replace it
C10_Outstanding ==
  /\ Returned
  /\ reserve.start < reserve.end
  /\ \E count2 \in Args :
        /\ reserve_op(Self, count2).fault = "none"
        /\ reserve_op(Self, count2).self.reserve # reserve

\* C11: every reserve(count) returns a window of at most min(count, CAP) slots,
\* reserved() afterwards is that length, and on a new or just-cleared buffer
\* the length is exactly min(count, CAP).
C11_ReserveClamps ==
  Returned =>
    \A count \in Args :
       LET r == reserve_op(Self, count)
           n == r.window.end - r.window.start
       IN  /\ r.fault = "none"
           /\ n <= Min(count, CAP)
           /\ reserved(r.self) = n
           /\ (a = Range(0, 0) /\ b = Range(0, 0)) => n = Min(count, CAP)

\* C12: decommit(len) with len >= len(A) rotates once: A becomes the former B,
\* B becomes empty, committed() becomes the former len(B) however large len
\* is, and Reserve is unchanged.
C12_DecommitRotates ==
  Returned =>
    \A len \in Args :
       len >= a.end - a.start =>
         LET r == decommit_op(Self, len)
         IN  /\ r.fault = "none"
             /\ r.self.a = b
             /\ r.self.b = Range(0, 0)
             /\ committed(r.self) = b.end - b.start
             /\ r.self.reserve = reserve

\* C12 witness: both regions hold data under an outstanding reservation, and a
\* decommit larger than A leaves exactly the former B
C12_RotationDue ==
  /\ Returned
  /\ a.start < a.end
  /\ b.start < b.end
  /\ reserve.start < reserve.end
  /\ decommit_op(Self, a.end - a.start + 1).self.a = b

C14_PopNeverRotates ==
  Returned =>
    LET r == pop_op(Self)
        a_drained == ~(a.start < a.end)
        b_holds == b.start < b.end
    IN  /\ r.self.a.end = a.end
        /\ r.self.b.end = b.end
        /\ r.self.reserve = reserve
        /\ r.self.buffer = buffer
        /\ ~a_drained => r.self.a.start = a.start + 1 /\ r.self.b = b
        /\ a_drained /\ b_holds => r.self.a = a /\ r.self.b.start = b.start + 1
        /\ a_drained /\ ~b_holds => r.self = Self
        /\ a_drained /\ b_holds =>
             /\ read_op(Self).fault = "none"
             /\ read_op(Self).block = <<>>
             /\ read_op(r.self).block = <<>>
             /\ \A n \in Args :
                  /\ range_is_empty(commit_op(Self, n).self.a)
                  /\ range_is_empty(reserve_op(Self, n).self.a)
             /\ decommit_op(Self, 0).self.a = b

\* The number of consecutive pop() calls from s that return an element
RECURSIVE PopRun(_)
PopRun(s) ==
  LET r == pop_op(s)
  IN  IF r.fault = "none" /\ r.some THEN 1 + PopRun(r.self) ELSE 0

\* The state after n successful pops from s
RECURSIVE AfterPops(_, _)
AfterPops(s, n) == IF n = 0 THEN s ELSE AfterPops(pop_op(s).self, n - 1)

\* C15: pop() returns None exactly when committed() = 0, and then changes
\* nothing; otherwise it returns an element and committed() drops by one.  From
\* committed() = k exactly k pops return elements and the next returns None.
C15_PopCount ==
  Returned =>
    LET r == pop_op(Self)
        k == committed(Self)
    IN  /\ r.fault = "none"
        /\ r.some <=> k > 0
        /\ ~r.some => r.self = Self
        /\ r.some => committed(r.self) = k - 1
        /\ PopRun(Self) = k
        /\ pop_op(AfterPops(Self, PopRun(Self))).fault = "none"
        /\ ~pop_op(AfterPops(Self, PopRun(Self))).some

\* C16: clear() sets A, B and Reserve to 0..0 and leaves the store as it is;
\* afterwards committed() = 0, reserved() = 0 and is_empty() holds, and the
\* buffer is the one new() builds over the same store contents.
C16_ClearResets ==
  Returned =>
    LET c == clear_op(Self)
    IN  /\ c.a = Range(0, 0)
        /\ c.b = Range(0, 0)
        /\ c.reserve = Range(0, 0)
        /\ c.buffer = buffer
        /\ committed(c) = 0
        /\ reserved(c) = 0
        /\ is_empty(c)
        /\ c = new(buffer)

\* C16 witness: clear acts on a buffer holding data in A and B under an
\* outstanding reservation, over a store that has been written
C16_ClearsAll ==
  /\ Returned
  /\ a.start < a.end
  /\ b.start < b.end
  /\ reserve.start < reserve.end
  /\ \A i \in DOMAIN buffer : buffer[i] # 0
  /\ is_empty(clear_op(Self))
  /\ clear_op(Self).buffer = buffer

\* commit(len) takes its third branch: len > 0, A or B holds data, and the
\* reservation does not start at a.end
b_branch(s, len) ==
  /\ len # 0
  /\ ~(range_is_empty(s.a) /\ range_is_empty(s.b))
  /\ s.reserve.start # s.a.end

\* C17: whenever commit(len > 0) takes the B branch (b.end += n) with n > 0
\* slots to commit, the reservation began exactly at the current b.end, so B
\* after the commit is one contiguous range covering exactly the old B slots
\* and the first n slots of the reserved window.
C17_BContiguous ==
  Returned =>
    \A len \in Args :
       b_branch(Self, len) /\ to_commit(Self, len) > 0 =>
         LET r == commit_op(Self, len)
             n == to_commit(Self, len)
         IN  /\ r.fault = "none"
             /\ reserve.start = b.end
             /\ Indices(r.self.b) =
                  Indices(b) \cup Indices(Range(reserve.start, reserve.start + n))

\* C18: reserve(count) changes only the Reserve range: A and B are unchanged,
\* so committed() and the block read() returns are the same before and after,
\* and what the caller then writes into the reserved window is not visible to
\* read() before a commit.
C18_ReserveFrame ==
  Returned =>
    \A count \in Args :
       LET r == reserve_op(Self, count)
           written == [r.self EXCEPT !.buffer = WriteWindow(buffer, r.window, fifo)]
       IN  /\ r.self.a = a
           /\ r.self.b = b
           /\ r.self.buffer = buffer
           /\ committed(r.self) = committed(Self)
           /\ read_op(r.self) = read_op(Self)
           /\ read_op(written) = read_op(Self)

\* C19: when pop is never called (only reserve, commit, decommit, read and
\* clear), no call faults, B non-empty implies A non-empty, and read() returns
\* a non-empty block whenever committed() > 0.
C19_ReadSeesData ==
  /\ Returned
  /\ b.start < b.end => a.start < a.end
  /\ committed(Self) > 0 =>
       /\ read_op(Self).fault = "none"
       /\ Len(read_op(Self).block) > 0

\* C19 witness: the store is full and wrapped, and a decommit larger than A
\* leaves the former B to be read
C19_RotationFeedsRead ==
  /\ Returned
  /\ b.start < b.end
  /\ a.end = CAP
  /\ committed(Self) = CAP
  /\ Len(read_op(decommit_op(Self, UsizeMax).self).block) = b.end - b.start

\* C20: from every reachable state, two consecutive decommit(len) calls with
\* len >= CAP drain the buffer: afterwards A = B = 0..0 and committed() = 0,
\* and a following reserve(CAP) returns the full window 0..CAP.
C20_TwoDecommitsDrain ==
  Returned =>
    \A len1, len2 \in {len \in Args : len >= CAP} :
       LET d1 == decommit_op(Self, len1)
           d2 == decommit_op(d1.self, len2)
           r == reserve_op(d2.self, CAP)
       IN  /\ d1.fault = "none"
           /\ d2.fault = "none"
           /\ d2.self.a = Range(0, 0)
           /\ d2.self.b = Range(0, 0)
           /\ committed(d2.self) = 0
           /\ r.fault = "none"
           /\ r.window = Range(0, CAP)

\* C20 witness: A and B both hold data, so the first decommit(CAP) only rotates
\* B into A and it takes the second one to empty the buffer
C20_NeedsBoth ==
  /\ Returned
  /\ a.start < a.end
  /\ b.start < b.end
  /\ committed(decommit_op(Self, CAP).self) > 0
  /\ committed(decommit_op(decommit_op(Self, CAP).self, CAP).self) = 0

====
